---- MODULE Spec2Model ----
(***************************************************************************)
(* Model of GenAITrans.py: the SmartScriptOCR class (recognizer            *)
(* initialisation and the primary/fallback text enhancement) and the       *)
(* Streamlit script create_ui, which the framework re-runs from the top    *)
(* on every widget interaction of a browser session.                       *)
(*                                                                         *)
(* Spec       one browser session: each action is one user interaction     *)
(*            followed by the complete re-run of create_ui.                *)
(* SpecGenAI  SmartScriptOCR.process_genai applied to inputs drawn in Init.*)
(***************************************************************************)
EXTENDS Integers, Sequences, FiniteSets, TLC

\* ------------------------------------------------------------------ bounds
\* Longest history of Analyze presses that the session records.
MaxPresses == 2

\* ------------------------------------------------------------- value sets
AllSecrets == {"openai_api_key", "xai_api_key", "xai_api_url", "openai_model"}

Texts == {"", "raw"}
Contents == {"", "raw", "enhanced"}

Modes == {"Traditional ML", "GenAI Enhanced"}

\* What the user can put in the uploader: nothing, a colour image (3-d array),
\* a greyscale image (2-d array), a file PIL cannot open.
Files == {"none", "rgb", "gray", "corrupt"}

Questions == {"", "q"}

\* Outcomes of requests.post(grok_url, ...): it raises, or it returns a response
\* with a status code and a body that either holds choices[0].message.content
\* or does not.
PostOutcomes ==
    {[raises |-> TRUE, status_code |-> 0, json_ok |-> FALSE, content |-> ""]}
    \cup [raises : {FALSE}, status_code : {200}, json_ok : {TRUE}, content : Contents]
    \cup [raises : {FALSE}, status_code : {200, 404, 500}, json_ok : {FALSE}, content : {""}]

\* Outcomes of openai.chat.completions.create(...): it raises, or it returns a
\* completion whose choices list is empty or holds a message content.
ChatOutcomes ==
    {[raises |-> TRUE, choices_ok |-> FALSE, content |-> ""]}
    \cup {[raises |-> FALSE, choices_ok |-> FALSE, content |-> ""]}
    \cup [raises : {FALSE}, choices_ok : {TRUE}, content : Contents]

\* Outcomes of easyocr.Reader([...], gpu=False): built, or raised (model files
\* cannot be loaded).
ReaderOutcomes == {"ok", "raise"}

\* ------------------------------------------------------ generic helpers
RECURSIVE Count(_, _)
Count(s, x) ==
    IF s = <<>> THEN 0
    ELSE (IF Head(s) = x THEN 1 ELSE 0) + Count(Tail(s), x)

Occurs(s, x) == \E i \in 1..Len(s) : s[i] = x

\* ------------------------------------------------------- SmartScriptOCR
supported_languages ==
    [l \in {"Hindi", "English", "Arabic"} |->
        IF l = "Hindi" THEN <<"hi">> ELSE IF l = "English" THEN <<"en">> ELSE <<"ar">>]

Languages == DOMAIN supported_languages

\* self.easy_reader = None
NoReader == [built |-> FALSE, lang_list |-> <<>>]

\* SmartScriptOCR.__init__: the two subscript reads of st.secrets raise KeyError
\* when the key is not configured.
ocr_system_init(secrets) ==
    IF "openai_api_key" \notin secrets \/ "xai_api_key" \notin secrets
    THEN [raised |-> TRUE, exc |-> "KeyError", easy_reader |-> NoReader]
    ELSE [raised |-> FALSE, exc |-> "none", easy_reader |-> NoReader]

\* A recognizer built for the selected language and English together.
initialize_ocr_WithEnglish(lang, reader) ==
    IF reader = "raise"
    THEN [raised |-> TRUE, exc |-> "ReaderError", easy_reader |-> NoReader,
          calls |-> <<"easyocr.Reader">>]
    ELSE [raised |-> FALSE, exc |-> "none",
          easy_reader |-> [built |-> TRUE,
                           lang_list |-> <<supported_languages[lang][1], "en">>],
          calls |-> <<"easyocr.Reader">>]

\* A recognizer construction that is attempted a second time when it raises.
initialize_ocr_Retry(lang, reader) ==
    IF reader = "raise"
    THEN [raised |-> TRUE, exc |-> "ReaderError", easy_reader |-> NoReader,
          calls |-> <<"easyocr.Reader", "easyocr.Reader">>]
    ELSE [raised |-> FALSE, exc |-> "none",
          easy_reader |-> [built |-> TRUE,
                           lang_list |-> <<supported_languages[lang][1]>>],
          calls |-> <<"easyocr.Reader">>]

\* SmartScriptOCR.initialize_ocr: lang_code is the first code of the language's
\* entry; the reader is replaced by one built for [lang_code] alone.  When the
\* constructor raises the assignment does not happen.
initialize_ocr(lang, reader) ==
    LET lang_code == supported_languages[lang][1] IN
    IF reader = "raise"
    THEN [raised |-> TRUE, exc |-> "ReaderError", easy_reader |-> NoReader,
          calls |-> <<"easyocr.Reader">>]
    ELSE [raised |-> FALSE, exc |-> "none",
          easy_reader |-> [built |-> TRUE, lang_list |-> <<lang_code>>],
          calls |-> <<"easyocr.Reader">>]

\* ocr_system.process_traditional(processed_img): the class defines __init__,
\* initialize_ocr and process_genai only, so the attribute lookup raises
\* AttributeError before anything is called.
process_traditional(easy_reader, processed_img) ==
    [raised |-> TRUE, exc |-> "AttributeError", text |-> "", confidence |-> 0]

\* The except clause of process_genai that returns the empty string.
GenaiExcept_ReturnsEmpty(text, calls, e) ==
    [ret |-> "", raised |-> FALSE, exc |-> e, calls |-> calls,
     notices |-> <<"GenAI Error">>]

\* except Exception as e: st.error("GenAI Error: ..."); return text
GenaiExcept(text, calls, e) ==
    [ret |-> text, raised |-> FALSE, exc |-> e, calls |-> calls,
     notices |-> <<"GenAI Error">>]

\* A normal return of process_genai.
GenaiReturn(content, calls) ==
    [ret |-> content, raised |-> FALSE, exc |-> "none", calls |-> calls,
     notices |-> <<>>]

\* A fallback that gives the text back without calling the provider.
GenaiFallback_NoCall(text, secrets, chat, calls) ==
    GenaiReturn(text, calls)

\* Lines 46-53: the model name is read from the secrets while the arguments are
\* evaluated, then the provider is called, then choices[0].message.content is
\* taken from the completion.
GenaiFallback(text, secrets, chat, calls) ==
    IF "openai_model" \notin secrets
    THEN GenaiExcept(text, calls, "KeyError")
    ELSE LET c2 == Append(calls, "openai.chat.completions.create") IN
         IF chat.raises THEN GenaiExcept(text, c2, "OpenAIError")
         ELSE IF ~chat.choices_ok THEN GenaiExcept(text, c2, "IndexError")
         ELSE GenaiReturn(chat.content, c2)

\* A process_genai that also falls back when the primary request raises.
process_genai_FallbackOnRaise(text, secrets, post, chat) ==
    IF "xai_api_url" \notin secrets
    THEN GenaiExcept(text, <<>>, "KeyError")
    ELSE LET c1 == <<"requests.post">> IN
         IF post.raises THEN GenaiFallback(text, secrets, chat, c1)
         ELSE IF post.status_code = 200
              THEN IF post.json_ok THEN GenaiReturn(post.content, c1)
                   ELSE GenaiExcept(text, c1, "KeyError")
              ELSE GenaiFallback(text, secrets, chat, c1)

\* SmartScriptOCR.process_genai.  calls lists the provider calls in order.
process_genai(text, secrets, post, chat) ==
    IF "xai_api_url" \notin secrets
    THEN GenaiExcept(text, <<>>, "KeyError")
    ELSE LET c1 == <<"requests.post">> IN
         IF post.raises THEN GenaiExcept(text, c1, "RequestException")
         ELSE IF post.status_code = 200
              THEN IF post.json_ok THEN GenaiReturn(post.content, c1)
                   ELSE GenaiExcept(text, c1, "KeyError")
              ELSE GenaiFallback(text, secrets, chat, c1)

\* ------------------------------------------------------------ create_ui
\* st.session_state of a new session: no key is set.
EmptySession == [k \in {} |-> ""]

\* The widget values of a first run: selectbox index=0, radio index=1, no file,
\* an empty question.
DefaultWidgets ==
    [selected_lang |-> "Hindi", mode |-> "GenAI Enhanced",
     uploaded_file |-> "none", question |-> ""]

\* What the try block of the Analyze button leaves behind when it does not run.
NoAnalysis(ss) ==
    [status |-> "not_run", exc |-> "none", notices |-> <<>>, calls |-> <<>>,
     reader_at_ocr |-> NoReader, ocr_invoked |-> FALSE, ocr_returned |-> FALSE,
     ocr_text |-> "", confidence |-> 0, genai_exc |-> "none",
     result_shown |-> FALSE, result_text |-> "", session |-> ss]

\* An except clause of the Analyze button that also records an empty text.
AnalyzeExcept_Stores(ss, partial, e) ==
    [partial EXCEPT !.status = "failed", !.exc = e,
                    !.notices = Append(partial.notices, "Error"),
                    !.session = [processed_text |-> ""]]

\* Lines 218-219: except Exception as e: st.error("Error: ...").  Nothing is
\* rendered or stored by the handler.
AnalyzeExcept(ss, partial, e) ==
    [partial EXCEPT !.status = "failed", !.exc = e,
                    !.notices = Append(partial.notices, "Error"),
                    !.session = ss]

\* Line 188: a 3-d array is converted to greyscale, a 2-d array is used as is.
processed_img(image) == IF image = "rgb" THEN "gray" ELSE image

\* Lines 191-216, after OCR has returned (text, confidence): the optional
\* enhancement, the rendering of text, time and confidence, and the store into
\* the session.
AnalyzeRest(ss, secrets, w, env, partial, ocr) ==
    LET g == IF w.mode = "GenAI Enhanced"
             THEN process_genai(ocr.text, secrets, env.post, env.chat)
             ELSE GenaiReturn(ocr.text, <<>>)
    IN [partial EXCEPT !.status = "completed",
                       !.ocr_returned = TRUE,
                       !.ocr_text = ocr.text,
                       !.confidence = ocr.confidence,
                       !.calls = partial.calls \o g.calls,
                       !.notices = partial.notices \o g.notices,
                       !.genai_exc = g.exc,
                       !.result_shown = TRUE,
                       !.result_text = g.ret,
                       !.session = [processed_text |-> g.ret]]

\* Lines 183-219: the try block run by a press of the Analyze button.
AnalyzeTry(ss, secrets, w, env) ==
    LET init == initialize_ocr(w.selected_lang, env.reader)
        p1 == [NoAnalysis(ss) EXCEPT !.calls = init.calls]
    IN IF init.raised THEN AnalyzeExcept(ss, p1, init.exc)
       ELSE LET ocr == process_traditional(init.easy_reader,
                                           processed_img(w.uploaded_file))
                p2 == [p1 EXCEPT !.calls = Append(p1.calls, "process_traditional"),
                                 !.ocr_invoked = TRUE,
                                 !.reader_at_ocr = init.easy_reader]
            IN IF ocr.raised THEN AnalyzeExcept(ss, p2, ocr.exc)
               ELSE AnalyzeRest(ss, secrets, w, env, p2, ocr)

\* The result of a tab: what it rendered, called and left in the session, and
\* the exception, if any, that left it.
TabResult(propagated, widgets, a, answer_shown) ==
    [propagated |-> propagated, widgets |-> widgets, a |-> a,
     answer_shown |-> answer_shown]

\* Lines 156-220, "with tab1:".  The constructor and Image.open run outside any
\* try statement.
Tab1(ss, secrets, w, clicked, env) ==
    LET ctor == ocr_system_init(secrets)
        inputs == {"selectbox", "radio", "uploader"}
    IN IF ctor.raised THEN TabResult(ctor.exc, {}, NoAnalysis(ss), FALSE)
       ELSE IF w.uploaded_file = "none"
            THEN TabResult("none", inputs, NoAnalysis(ss), FALSE)
       ELSE IF w.uploaded_file = "corrupt"
            THEN TabResult("UnidentifiedImageError", inputs, NoAnalysis(ss), FALSE)
       ELSE TabResult("none", inputs \cup {"analyze"},
                      IF clicked = "analyze" THEN AnalyzeTry(ss, secrets, w, env)
                      ELSE NoAnalysis(ss),
                      FALSE)

\* The provider call of the Q&A tab (line 229), told apart from the fallback's
\* call of the same provider (line 46).
QaCall == "openai.chat.completions.create (Q&A)"

\* A Q&A tab that offers the question box whether or not a text is stored, and
\* asks about an empty text when none is.
Tab2_NoGuard(t1, w, clicked, env) ==
    LET widgets == {"question"} \cup (IF w.question # "" THEN {"get_answer"} ELSE {})
    IN IF w.question # "" /\ clicked = "get_answer"
       THEN LET a == [t1.a EXCEPT !.calls = Append(t1.a.calls, QaCall)]
            IN TabResult("none", t1.widgets \cup widgets, a, TRUE)
       ELSE TabResult("none", t1.widgets \cup widgets, t1.a, FALSE)

\* Lines 222-246, "with tab2:", run after tab1 left the result t1.
Tab2(t1, w, clicked, env) ==
    IF "processed_text" \in DOMAIN t1.a.session
    THEN LET widgets == {"question"}
                        \cup (IF w.question # "" THEN {"get_answer"} ELSE {})
         IN IF w.question # "" /\ clicked = "get_answer"
            THEN LET called == [t1.a EXCEPT !.calls = Append(t1.a.calls, QaCall)]
                 IN IF env.chat.raises \/ ~env.chat.choices_ok
                    THEN TabResult("none", t1.widgets \cup widgets,
                                   [called EXCEPT !.notices =
                                       Append(called.notices, "Error generating answer")],
                                   FALSE)
                    ELSE TabResult("none", t1.widgets \cup widgets, called, TRUE)
            ELSE TabResult("none", t1.widgets \cup widgets, t1.a, FALSE)
    ELSE TabResult("none", t1.widgets,
                   [t1.a EXCEPT !.notices =
                       Append(t1.a.notices, "Please process a document first")],
                   FALSE)

\* create_ui: one run of the script.  An exception that leaves tab1 ends the run
\* before tab2.
create_ui(ss, secrets, w, clicked, env) ==
    LET t1 == Tab1(ss, secrets, w, clicked, env)
        t2 == IF t1.propagated # "none" THEN t1 ELSE Tab2(t1, w, clicked, env)
    IN [clicked |-> clicked, lang |-> w.selected_lang, mode |-> w.mode,
        propagated |-> t2.propagated, widgets |-> t2.widgets,
        tab2_ran |-> (t1.propagated = "none"),
        answer_shown |-> t2.answer_shown,
        status |-> t2.a.status, exc |-> t2.a.exc, notices |-> t2.a.notices,
        calls |-> t2.a.calls, reader_at_ocr |-> t2.a.reader_at_ocr,
        ocr_invoked |-> t2.a.ocr_invoked, ocr_returned |-> t2.a.ocr_returned,
        ocr_text |-> t2.a.ocr_text, confidence |-> t2.a.confidence,
        genai_exc |-> t2.a.genai_exc, result_shown |-> t2.a.result_shown,
        result_text |-> t2.a.result_text, session |-> t2.a.session]

\* ---------------------------------------------------------------- state
VARIABLES
    secrets,        \* keys configured in st.secrets
    session_state,  \* st.session_state
    widgets,        \* the values of the input widgets
    run,            \* what the last run of create_ui did
    env_seen,       \* how the outside world answered during the last run
    press_log,      \* languages selected at the Analyze presses so far
    genai           \* one application of process_genai (SpecGenAI)

vars == <<secrets, session_state, widgets, run, env_seen, press_log, genai>>

Envs == [reader : ReaderOutcomes, post : PostOutcomes, chat : ChatOutcomes]

\* A calm world, as seen by a run that reaches none of the services.
QuietEnv ==
    [reader |-> "ok",
     post |-> [raises |-> TRUE, status_code |-> 0, json_ok |-> FALSE, content |-> ""],
     chat |-> [raises |-> TRUE, choices_ok |-> FALSE, content |-> ""]]

\* Only the answers of services that the run called are observable.
Observed(r, env) ==
    [reader |-> IF Occurs(r.calls, "easyocr.Reader") THEN env.reader ELSE QuietEnv.reader,
     post |-> IF Occurs(r.calls, "requests.post") THEN env.post ELSE QuietEnv.post,
     chat |-> IF Occurs(r.calls, "openai.chat.completions.create")
                 \/ Occurs(r.calls, QaCall)
              THEN env.chat ELSE QuietEnv.chat]

GenaiIdle ==
    [text |-> "", secrets |-> {}, post |-> QuietEnv.post, chat |-> QuietEnv.chat,
     done |-> FALSE, result |-> GenaiReturn("", <<>>)]

\* Streamlit drops the value of a widget that a run did not render.
Kept(w, r) ==
    [selected_lang |-> IF "selectbox" \in r.widgets THEN w.selected_lang
                       ELSE DefaultWidgets.selected_lang,
     mode |-> IF "radio" \in r.widgets THEN w.mode ELSE DefaultWidgets.mode,
     uploaded_file |-> IF "uploader" \in r.widgets THEN w.uploaded_file
                       ELSE DefaultWidgets.uploaded_file,
     question |-> IF "question" \in r.widgets THEN w.question
                  ELSE DefaultWidgets.question]

\* One run of the script with widget values w after the interaction `clicked`.
Rerun(w, clicked, env) ==
    LET r == create_ui(session_state, secrets, w, clicked, env) IN
    /\ run' = r
    /\ session_state' = r.session
    /\ widgets' = Kept(w, r)
    /\ env_seen' = Observed(r, env)
    /\ press_log' = IF clicked = "analyze"
                    THEN Append(press_log, w.selected_lang) ELSE press_log
    /\ UNCHANGED <<secrets, genai>>

\* The session opens with a first run of the script on the default widgets.
Init ==
    /\ secrets \in SUBSET AllSecrets
    /\ session_state = EmptySession
    /\ widgets = Kept(DefaultWidgets,
                      create_ui(EmptySession, secrets, DefaultWidgets, "none", QuietEnv))
    /\ run = create_ui(EmptySession, secrets, DefaultWidgets, "none", QuietEnv)
    /\ env_seen = QuietEnv
    /\ press_log = <<>>
    /\ genai = GenaiIdle

\* The widget value that each input widget edits, and the values it offers.
FieldOf(name) ==
    CASE name = "selectbox" -> "selected_lang"
      [] name = "radio"     -> "mode"
      [] name = "uploader"  -> "uploaded_file"
      [] name = "question"  -> "question"

Offered(name) ==
    CASE name = "selectbox" -> Languages
      [] name = "radio"     -> Modes
      [] name = "uploader"  -> Files
      [] name = "question"  -> Questions

\* The user changes the value of an input widget that the last run rendered.
\* No button is pressed in the run that follows, so it reaches no service.
ChangeInput ==
    \E name \in run.widgets \cap {"selectbox", "radio", "uploader", "question"} :
      \E v \in Offered(name) \ {widgets[FieldOf(name)]} :
        Rerun([widgets EXCEPT ![FieldOf(name)] = v], "none", QuietEnv)

\* The user presses a button that the last run rendered.
PressButton ==
    \E b \in run.widgets \cap {"analyze", "get_answer"} :
      /\ b = "analyze" => Len(press_log) < MaxPresses
      /\ \E env \in Envs : Rerun(widgets, b, env)

Next == ChangeInput \/ PressButton

Spec == Init /\ [][Next]_vars

\* ------------------------------------------------- process_genai alone
\* process_genai is a method: the object exists, so __init__ has read both keys.
GenaiSecrets == {S \in SUBSET AllSecrets : {"openai_api_key", "xai_api_key"} \subseteq S}

InitGenAI ==
    /\ secrets = AllSecrets
    /\ session_state = EmptySession
    /\ widgets = DefaultWidgets
    /\ run = create_ui(EmptySession, AllSecrets, DefaultWidgets, "none", QuietEnv)
    /\ env_seen = QuietEnv
    /\ press_log = <<>>
    /\ genai \in [text : Texts, secrets : GenaiSecrets, post : PostOutcomes,
                  chat : ChatOutcomes, done : {FALSE},
                  result : {GenaiReturn("", <<>>)}]

\* process_genai(text) is called and returns.
CallProcessGenai ==
    /\ ~genai.done
    /\ genai' = [genai EXCEPT
                   !.done = TRUE,
                   !.result = process_genai(genai.text, genai.secrets,
                                            genai.post, genai.chat)]
    /\ UNCHANGED <<secrets, session_state, widgets, run, env_seen, press_log>>

NextGenAI == CallProcessGenai

SpecGenAI == InitGenAI /\ [][NextGenAI]_vars

\* ============================================================ properties
FallbackCall == "openai.chat.completions.create"

\* The primary request of the finished call completed with a response.
PrimaryResponded == genai.done /\ Occurs(genai.result.calls, "requests.post")
                    /\ ~genai.post.raises

PrimaryNon200 == PrimaryResponded /\ genai.post.status_code # 200

\* The inputs on which some statement inside the try block of process_genai
\* raises: a missing secret, a failing request, a body or a completion without
\* the expected content.
SomethingRaises ==
    \/ "xai_api_url" \notin genai.secrets
    \/ genai.post.raises
    \/ genai.post.status_code = 200 /\ ~genai.post.json_ok
    \/ /\ genai.post.status_code # 200
       /\ \/ "openai_model" \notin genai.secrets
          \/ genai.chat.raises
          \/ ~genai.chat.choices_ok

\* C1 as stated: whenever the primary endpoint answers with a status other than
\* 200, the fallback provider is invoked exactly once during that call.
C1_FallbackExactlyOnce ==
    PrimaryNon200 => Count(genai.result.calls, FallbackCall) = 1

\* C1 as amended: after a non-200 answer of the primary endpoint the fallback
\* provider is invoked at most once; exactly once when the secret openai_model
\* can be read, and not at all (the input text is returned) when reading it
\* raises.
C1_FallbackOnceIfModelConfigured ==
    PrimaryNon200 =>
        /\ Count(genai.result.calls, FallbackCall) <= 1
        /\ "openai_model" \in genai.secrets
              => Count(genai.result.calls, FallbackCall) = 1
        /\ "openai_model" \notin genai.secrets
              => /\ Count(genai.result.calls, FallbackCall) = 0
                 /\ genai.result.ret = genai.text

C1_Witness ==
    /\ PrimaryNon200
    /\ "openai_model" \in genai.secrets
    /\ genai.result.calls = <<"requests.post", FallbackCall>>

\* C2: if anything raises during the primary or the fallback attempt (reading
\* a secret and parsing a response included), process_genai returns exactly
\* its input text, shows an error notice and raises nothing to its caller.
C2_ExceptionReturnsInput ==
    genai.done =>
        /\ ~genai.result.raised
        /\ SomethingRaises =>
              /\ genai.result.ret = genai.text
              /\ Occurs(genai.result.notices, "GenAI Error")
              /\ genai.result.exc # "none"

C2_Witness ==
    /\ genai.done
    /\ genai.text = "raw"
    /\ PrimaryNon200
    /\ Occurs(genai.result.calls, FallbackCall)
    /\ genai.chat.raises
    /\ genai.result.ret = "raw"

\* C9 as stated: the fallback is invoked only after the primary request
\* completed with a status other than 200; a primary answer with status 200 has
\* its content returned without the fallback, and a primary request that raises
\* gives the input text back without the fallback.
C9_FallbackOnlyAfterNon200 ==
    genai.done =>
        /\ Occurs(genai.result.calls, FallbackCall) => PrimaryNon200
        /\ PrimaryResponded /\ genai.post.status_code = 200
              => /\ genai.result.exc = "none"
                 /\ genai.result.ret = genai.post.content
                 /\ ~Occurs(genai.result.calls, FallbackCall)
        /\ Occurs(genai.result.calls, "requests.post") /\ genai.post.raises
              => /\ genai.result.ret = genai.text
                 /\ ~Occurs(genai.result.calls, FallbackCall)

\* C9 as amended: the fallback is invoked only after the primary request
\* completed with a status other than 200.  A primary answer with status 200
\* is never followed by the fallback: its content is returned when the body
\* holds choices[0].message.content, and the input text is returned with an
\* error notice when it does not.  A primary request that raises gives the
\* input text back without the fallback.
C9_FallbackOnlyAfterNon200_ParsedBody ==
    genai.done =>
        /\ Occurs(genai.result.calls, FallbackCall)
              => /\ PrimaryNon200
                 /\ genai.result.calls = <<"requests.post", FallbackCall>>
        /\ PrimaryResponded /\ genai.post.status_code = 200 /\ genai.post.json_ok
              => /\ genai.result.exc = "none"
                 /\ genai.result.ret = genai.post.content
                 /\ ~Occurs(genai.result.calls, FallbackCall)
        /\ PrimaryResponded /\ genai.post.status_code = 200 /\ ~genai.post.json_ok
              => /\ genai.result.ret = genai.text
                 /\ Occurs(genai.result.notices, "GenAI Error")
                 /\ ~Occurs(genai.result.calls, FallbackCall)
        /\ Occurs(genai.result.calls, "requests.post") /\ genai.post.raises
              => /\ genai.result.ret = genai.text
                 /\ ~Occurs(genai.result.calls, FallbackCall)

\* The primary request raised although the fallback was configured and would
\* have answered.
C9_Witness ==
    /\ genai.done
    /\ genai.result.calls = <<"requests.post">>
    /\ genai.post.raises
    /\ "openai_model" \in genai.secrets
    /\ ~genai.chat.raises /\ genai.chat.choices_ok /\ genai.chat.content = "enhanced"
    /\ genai.text = "raw"
    /\ genai.result.ret = "raw"

HasText == "processed_text" \in DOMAIN session_state

Guidance == "Please process a document first"

CodeOf(lang) ==
    CASE lang = "Hindi" -> "hi" [] lang = "English" -> "en" [] lang = "Arabic" -> "ar"

\* C4: whenever an Analyze press reaches the OCR call, the recognizer was built
\* in that press for exactly the one code of the language selected for it.
C4_ReaderForSelectedLanguageOnly ==
    /\ run.ocr_invoked
          => /\ run.clicked = "analyze"
             /\ run.reader_at_ocr.built
             /\ run.reader_at_ocr.lang_list = <<CodeOf(widgets.selected_lang)>>
             /\ press_log[Len(press_log)] = widgets.selected_lang
    /\ run.clicked = "analyze" /\ env_seen.reader = "ok" => run.ocr_invoked

\* A second Analyze press, for another language than the first, reached OCR.
C4_Witness ==
    /\ Len(press_log) = 2
    /\ press_log[1] = "Hindi"
    /\ press_log[2] = "Arabic"
    /\ run.clicked = "analyze"
    /\ run.ocr_invoked
    /\ run.reader_at_ocr.lang_list = <<"ar">>

\* C5: the OCR invocation of the Analyze action returns a text and a confidence
\* in 0..100.
C5_OcrReturnsTextAndConfidence ==
    run.ocr_invoked => run.ocr_returned /\ run.confidence \in 0..100

\* C6: no exception leaves create_ui.
C6_NothingPropagates == run.propagated = "none"

ChatCalls(calls) == Count(calls, FallbackCall) + Count(calls, QaCall)

\* C8: within one user action the recognizer is built at most once, OCR is
\* invoked at most once, the primary endpoint is called at most once and the
\* chat-completion provider is called at most once, whichever of them fails.
C8_NoRetry ==
    /\ Count(run.calls, "easyocr.Reader") <= 1
    /\ Count(run.calls, "process_traditional") <= 1
    /\ Count(run.calls, "requests.post") <= 1
    /\ ChatCalls(run.calls) <= 1

\* The recognizer could not be built in an Analyze press.
C8_Witness ==
    /\ run.clicked = "analyze"
    /\ env_seen.reader = "raise"
    /\ run.status = "failed"
    /\ run.calls = <<"easyocr.Reader">>

\* C10: 'processed_text' changes only in an Analyze press whose try block
\* completed, to the text that press rendered; a failed Analyze press and every
\* other interaction leave the session as it was, and the key is never removed.
C10_ProcessedTextFrame ==
    [][ /\ HasText => "processed_text" \in DOMAIN session_state'
        /\ session_state' # session_state
              => /\ run'.clicked = "analyze"
                 /\ run'.status = "completed"
                 /\ session_state' = [processed_text |-> run'.result_text]
        /\ run'.clicked = "analyze" /\ run'.status = "failed"
              => session_state' = session_state
        /\ run'.clicked # "analyze" => session_state' = session_state
      ]_vars

\* An Analyze press failed at the OCR step and the session still has no text.
C10_Witness ==
    /\ run.clicked = "analyze"
    /\ run.status = "failed"
    /\ run.ocr_invoked
    /\ session_state = EmptySession

====
